---- MODULE Spec2Model ----
(***************************************************************************)
(* A model of the NextDNS API wrapper (src/nextdns): the HTTP error        *)
(* classification of NextDns._http_request, the decoding of analytics      *)
(* responses through the MAP_* tables into the dataclasses of model.py,    *)
(* the profile directory, and the facade's operations.                     *)
(*                                                                         *)
(* A URL is represented by the ENDPOINTS key it is built from and the      *)
(* profile id; the text of the URL templates is not modelled.  Ratios are  *)
(* kept in tenths of a percent (86 stands for 8.6).                        *)
(*                                                                         *)
(* Three specifications share the variables and Init.  Spec is the facade  *)
(* called sequentially, GatherSpec is get_all_analytics with its five      *)
(* concurrent sub-requests, AggregateSpec is the decoding and construction *)
(* of the analytics aggregates over a wide set of responses.  They are     *)
(* kept apart because the state they touch is independent: the directory   *)
(* is read only by connection_status and the lookups.                      *)
(***************************************************************************)
EXTENDS Integers, Sequences, FiniteSets, TLC

VARIABLES
    profiles,     \* NextDns._profiles: a sequence of ProfileInfo
    profilesSet,  \* whether self._profiles has been assigned at all
    call,         \* the facade call made last: [op, profile_id]
    requests,     \* number of requests the last call put on the transport
    resp,         \* the response the last call received
    outcome,      \* what the last call gave its caller: a value or an exception
    phase,        \* get_all_analytics: "idle", "running", "returned", "failed"
    tasks         \* get_all_analytics: the state of each gathered coroutine

vars == <<profiles, profilesSet, call, requests, resp, outcome, phase, tasks>>

-----------------------------------------------------------------------------
(* Bounds of the model *)

MaxCount == 2
MaxItems == 3
MaxProfiles == 2

-----------------------------------------------------------------------------
(* http.HTTPStatus values used by _http_request *)

FORBIDDEN == 403
NO_CONTENT == 204
OK == 200

Statuses == {OK, 201, NO_CONTENT, 400, FORBIDDEN, 500}

Methods == {"get", "delete", "patch"}

ErrorCodes == {"badRequest", "notFound"}

\* A placeholder for Python's None and for fields that carry nothing.
None == "None"

-----------------------------------------------------------------------------
(* const.py *)

ENDPOINTS == {"analytics", "logs", "profile", "profiles", "test", "settings"}

\* The raw keys of the tables are JSON booleans, integers and strings; all are
\* written as strings here so that a response may also carry a key of no table.
MAP_DNSSEC == [k \in {"false", "true"} |->
    IF k = "false" THEN "not_validated_queries" ELSE "validated_queries"]

MAP_ENCRYPTED == [k \in {"false", "true"} |->
    IF k = "false" THEN "unencrypted_queries" ELSE "encrypted_queries"]

MAP_IP_VERSIONS == [k \in {"4", "6"} |->
    IF k = "4" THEN "ipv4_queries" ELSE "ipv6_queries"]

MAP_PROTOCOLS == [k \in {"DNS-over-HTTPS", "DNS-over-QUIC", "DNS-over-TLS", "UDP"} |->
    CASE k = "DNS-over-HTTPS" -> "doh_queries"
      [] k = "DNS-over-QUIC" -> "dquic_queries"
      [] k = "DNS-over-TLS" -> "dot_queries"
      [] k = "UDP" -> "udp_queries"]

MAP_STATUS == [k \in {"allowed", "blocked", "default", "relayed"} |->
    CASE k = "allowed" -> "allowed_queries"
      [] k = "blocked" -> "blocked_queries"
      [] k = "default" -> "default_queries"
      [] k = "relayed" -> "relayed_queries"]

MAP_PROFILE == [k \in {"parentalControl"} |-> "parental_control"]

\* The analytics categories, named by the "type" put in the URL.
Categories == {"status", "dnssec", "encryption", "ipVersions", "protocols"}

\* The table each get_analytics_* method decodes with.
MapOf(cls) ==
    CASE cls = "status" -> MAP_STATUS
      [] cls = "dnssec" -> MAP_DNSSEC
      [] cls = "encryption" -> MAP_ENCRYPTED
      [] cls = "ipVersions" -> MAP_IP_VERSIONS
      [] cls = "protocols" -> MAP_PROTOCOLS

-----------------------------------------------------------------------------
(* model.py: the analytics dataclasses *)

\* The counter fields of each dataclass.
Counters(cls) ==
    CASE cls = "status" -> {"default_queries", "blocked_queries", "allowed_queries"}
      [] cls = "dnssec" -> {"not_validated_queries", "validated_queries"}
      [] cls = "encryption" -> {"encrypted_queries", "unencrypted_queries"}
      [] cls = "ipVersions" -> {"ipv6_queries", "ipv4_queries"}
      [] cls = "protocols" -> {"doh_queries", "dot_queries", "udp_queries"}

\* The counters __post_init__ computes a <counter>_ratio for.
RatioCounters(cls) ==
    CASE cls = "status" -> {"blocked_queries"}
      [] cls = "dnssec" -> {"validated_queries"}
      [] cls = "encryption" -> {"encrypted_queries"}
      [] cls = "ipVersions" -> {"ipv6_queries"}
      [] cls = "protocols" -> {"doh_queries", "dot_queries", "udp_queries"}

RatioName(counter) == counter \o "_ratio"

RatioFields(cls) == {RatioName(c) : c \in RatioCounters(cls)}

\* Only AnalyticsStatus stores the total; the others keep it in a local.
TotalFields(cls) == IF cls = "status" THEN {"all_queries"} ELSE {}

\* Every field of the dataclass; each is also a keyword of its __init__.
Fields(cls) == Counters(cls) \cup TotalFields(cls) \cup RatioFields(cls)

RECURSIVE SumOver(_, _)
SumOver(f, S) ==
    IF S = {} THEN 0
    ELSE LET c == CHOOSE x \in S : TRUE IN f[c] + SumOver(f, S \ {c})

\* sum([...]) over the counters of the dataclass.
AllQueries(cls, f) == SumOver(f, Counters(cls))

\* round(counter / all_queries * 100, 1), in tenths.  Python's round() takes
\* the nearest tenth and, on an exact tie, the one with an even last digit;
\* for totals below 80 the float quotient rounds as the exact quotient does.
RoundedRatio(counter, total) ==
    LET q == (counter * 1000) \div total
        r == (counter * 1000) % total
    IN IF 2 * r > total \/ (2 * r = total /\ q % 2 = 1) THEN q + 1 ELSE q

\* 0 if not all_queries else round(...)
Ratio(counter, total) == IF total = 0 THEN 0 ELSE RoundedRatio(counter, total)

\* __post_init__: the derived fields are overwritten from the counters.
PostInit(cls, f) ==
    LET total == AllQueries(cls, f) IN
    [n \in Fields(cls) |->
        IF n \in TotalFields(cls) THEN total
        ELSE IF n \in RatioFields(cls)
             THEN LET c == CHOOSE x \in RatioCounters(cls) : RatioName(x) = n
                  IN Ratio(f[c], total)
             ELSE f[n]]

Return(v) == [kind |-> "return", exc |-> None, msg |-> None, value |-> v]

Raise(e, m) == [kind |-> "raise", exc |-> e, msg |-> m, value |-> None]

\* The dataclass constructor called with keyword arguments kw: a keyword that
\* is no field is a TypeError; fields not given take their default 0; then
\* __post_init__ runs.
NewAggregate(cls, kw) ==
    IF ~(DOMAIN kw \subseteq Fields(cls))
    THEN Raise("TypeError", None)
    ELSE Return([cls |-> cls,
                 f |-> PostInit(cls, [n \in Fields(cls) |->
                                         IF n \in DOMAIN kw THEN kw[n] ELSE 0])])

-----------------------------------------------------------------------------
(* Responses *)

\* A response body.  json: whether resp.json() yields a document at all;
\* errors: the code of errors[0], or "absent" (no errors key) or "empty"
\* (errors is an empty list); hasData: whether the document has a top-level
\* "data" key; data: the value under it; top: the document itself (without
\* the data and errors keys).
Body(json, errors, hasData, data, top) ==
    [json |-> json, errors |-> errors, hasData |-> hasData, data |-> data, top |-> top]

EmptyBody == Body(FALSE, "absent", FALSE, None, None)

\* The bodies an error response may carry.
ErrorBodies ==
    {EmptyBody} \cup {Body(TRUE, e, FALSE, None, None) : e \in {"absent", "empty"} \cup ErrorCodes}

\* The bodies a 200 response may carry a payload of P in: under "data" or bare.
OkBodies(P) ==
    {EmptyBody} \cup {Body(TRUE, "absent", TRUE, p, None) : p \in P}
               \cup {Body(TRUE, "absent", FALSE, None, p) : p \in P}

BodiesFor(status, P) == IF status = OK THEN OkBodies(P) ELSE ErrorBodies

NoResponse == [method |-> None, endpoint |-> None, status |-> 0, body |-> EmptyBody]

Response(method, endpoint, status, body) ==
    [method |-> method, endpoint |-> endpoint, status |-> status, body |-> body]

-----------------------------------------------------------------------------
(* NextDns._http_request *)

\* A variant of ApiErrorMessage that leaves the status out of the message.
ApiErrorMessageCodeOnly(status, code) == code

\* f"{resp.status}, {result['errors'][0]['code']}"
ApiErrorMessage(status, code) == ToString(status) \o ", " \o code

\* await resp.json() followed by result['errors'][0]['code'] and the raise.
RaiseApiError(status, body) ==
    IF ~body.json THEN Raise("ContentTypeError", None)
    ELSE IF body.errors = "absent" THEN Raise("KeyError", None)
    ELSE IF body.errors = "empty" THEN Raise("IndexError", None)
    ELSE Raise("ApiError", ApiErrorMessage(status, body.errors))

\* result["data"] if "data" in result else result
Unwrap(body) == IF body.hasData THEN body.data ELSE body.top

\* await resp.json() and the return of the 200 branch.
ReturnBody(body) ==
    IF ~body.json THEN Raise("ContentTypeError", None) ELSE Return(Unwrap(body))

\* A variant of HttpRequest without the 403 test: 403 falls to the ApiError rule.
HttpRequestNoForbidden(method, status, body) ==
    IF status = NO_CONTENT /\ method \in {"delete", "patch"}
    THEN Return([hasSuccess |-> TRUE, success |-> TRUE])
    ELSE IF status # OK THEN RaiseApiError(status, body)
    ELSE ReturnBody(body)

\* A variant of HttpRequest whose 204 rule covers "delete" only.
HttpRequestDeleteOnly(method, status, body) ==
    IF status = FORBIDDEN THEN Raise("InvalidApiKeyError", None)
    ELSE IF status = NO_CONTENT /\ method = "delete"
         THEN Return([hasSuccess |-> TRUE, success |-> TRUE])
    ELSE IF status # OK THEN RaiseApiError(status, body)
    ELSE ReturnBody(body)

\* The classification of a response: what _http_request gives its caller.
HttpRequest(method, status, body) ==
    IF status = FORBIDDEN THEN Raise("InvalidApiKeyError", None)
    ELSE IF status = NO_CONTENT /\ method \in {"delete", "patch"}
         THEN Return([hasSuccess |-> TRUE, success |-> TRUE])
    ELSE IF status # OK THEN RaiseApiError(status, body)
    ELSE ReturnBody(body)

-----------------------------------------------------------------------------
(* The analytics getters *)

\* An entry of an analytics response: the raw key and its queries count.
RawKeys(cls) == DOMAIN MapOf(cls) \cup {"other"}

Items(cls) == [key : RawKeys(cls), queries : 0..MaxCount]

RECURSIVE SeqsUpTo(_, _)
SeqsUpTo(S, n) ==
    IF n = 0 THEN {<<>>}
    ELSE LET shorter == SeqsUpTo(S, n - 1)
         IN shorter \cup {Append(s, x) : s \in {t \in shorter : Len(t) = n - 1}, x \in S}

\* {MAP[item[key]]: item["queries"] for item in resp}: a key of no table is a
\* KeyError; of two entries with one name the later one stays.
Keywords(cls, items) ==
    LET map == MapOf(cls)
        names == {map[items[i].key] : i \in 1..Len(items)}
    IN [n \in names |->
          LET last == CHOOSE i \in 1..Len(items) :
                         /\ map[items[i].key] = n
                         /\ \A j \in 1..Len(items) : map[items[j].key] = n => j <= i
          IN items[last].queries]

Decode(cls, items) ==
    IF \E i \in 1..Len(items) : items[i].key \notin DOMAIN MapOf(cls)
    THEN Raise("KeyError", None)
    ELSE NewAggregate(cls, Keywords(cls, items))

\* get_analytics_<cls>: one GET, classified, then decoded.
AnalyticsResult(cls, status, body) ==
    LET r == HttpRequest("get", status, body)
    IN IF r.kind = "raise" THEN r ELSE Decode(cls, r.value)

-----------------------------------------------------------------------------
(* The profile directory *)

ProfileIds == {"fakepr", "otherpr"}

Fingerprints == {"fakeprofile12", "otherprofile34"}

ProfileNames == {"Fake Profile", "Other Profile"}

\* The entries of a profile-list response.
ProfileEntries == [id : ProfileIds, fingerprint : Fingerprints, name : ProfileNames]

ProfileLists == SeqsUpTo(ProfileEntries, MaxProfiles)

ProfileInfo(id, fingerprint, name) == [id |-> id, fingerprint |-> fingerprint, name |-> name]

\* list(self._parse_profiles(...)): one ProfileInfo per entry, in response order.
ParseProfiles(list) ==
    [i \in 1..Len(list) |-> ProfileInfo(list[i].id, list[i].fingerprint, list[i].name)]

-----------------------------------------------------------------------------
(* The facade's calls, each a whole call from request to result *)

\* A call: the method, its profile_id and its further argument, if any.
Call(op, profile_id, arg) == [op |-> op, profile_id |-> profile_id, arg |-> arg]

NoOutcome == [kind |-> "none", exc |-> None, msg |-> None, value |-> None]

\* No call is under way and the result of the last one has been taken.
Idle == outcome.kind = "none" /\ phase # "running"

\* The caller takes what its await gave it and goes on to its next call.
Resume ==
    /\ outcome.kind # "none"
    /\ phase # "running"
    /\ call' = Call("none", None, None)
    /\ requests' = 0
    /\ resp' = NoResponse
    /\ outcome' = NoOutcome
    /\ UNCHANGED <<profiles, profilesSet, phase, tasks>>

\* initialize(): get_profiles() and the assignment of self._profiles.  An
\* exception leaves self._profiles as it was.
Initialize ==
    /\ Idle
    /\ \E status \in Statuses : \E body \in BodiesFor(status, ProfileLists) :
        LET r == HttpRequest("get", status, body) IN
        /\ call' = Call("initialize", None, None)
        /\ requests' = 1
        /\ resp' = Response("get", "profiles", status, body)
        /\ IF r.kind = "return"
           THEN /\ profiles' = ParseProfiles(r.value)
                /\ profilesSet' = TRUE
                /\ outcome' = Return(None)
           ELSE /\ outcome' = r
                /\ UNCHANGED <<profiles, profilesSet>>
        /\ UNCHANGED <<phase, tasks>>

\* The fields of the Profile dataclass.
ProfileFields ==
    {"allowlist", "denylist", "fingerprint", "id", "name", "parental_control",
     "privacy", "rewrites", "security", "settings", "setup"}

\* The keys of a profile-detail document, as the provider names them.
ProfileRawKeys == (ProfileFields \ {"parental_control"}) \cup {"parentalControl"}

ProfileDocs ==
    {ProfileRawKeys, ProfileFields, ProfileRawKeys \ {"setup"}, ProfileRawKeys \cup {"rules"}}

\* Profile(**{MAP_PROFILE.get(key, key): value ...}): every field is required
\* and no other keyword is accepted.
ProfileResult(keys) ==
    LET kw == {IF k \in DOMAIN MAP_PROFILE THEN MAP_PROFILE[k] ELSE k : k \in keys}
    IN IF kw = ProfileFields THEN Return([cls |-> "Profile", keys |-> kw])
       ELSE Raise("TypeError", None)

GetProfile(profile_id) ==
    /\ Idle
    /\ \E status \in Statuses : \E body \in BodiesFor(status, ProfileDocs) :
        LET r == HttpRequest("get", status, body) IN
        /\ call' = Call("get_profile", profile_id, None)
        /\ requests' = 1
        /\ resp' = Response("get", "profile", status, body)
        /\ outcome' = IF r.kind = "raise" THEN r ELSE ProfileResult(r.value)
        /\ UNCHANGED <<profiles, profilesSet, phase, tasks>>

\* get_analytics_status, _dnssec, _encryption, _ip_versions, _protocols, with
\* the payload of a 200 response drawn from P.
GetAnalytics(cls, profile_id, P) ==
    /\ Idle
    /\ \E status \in Statuses : \E body \in BodiesFor(status, P) :
        /\ call' = Call("get_analytics", profile_id, cls)
        /\ requests' = 1
        /\ resp' = Response("get", "analytics", status, body)
        /\ outcome' = AnalyticsResult(cls, status, body)
        /\ UNCHANGED <<profiles, profilesSet, phase, tasks>>

\* The test endpoint's document: status and profile, None for a key not there.
TestDocs ==
    [status : {"ok", "error", None}, profile : Fingerprints \cup {"unknownfp", None}]

\* A variant of UsedProfileId that takes the first entry whatever its fingerprint.
UsedProfileIdFirstEntry(dir, fingerprint) ==
    IF Len(dir) = 0 THEN None ELSE dir[1].id

\* for item in self.profiles: if item.fingerprint == ...: used_profile_id =
\* item.id.  The loop does not stop at a match: the last matching entry stays.
UsedProfileId(dir, fingerprint) ==
    LET hits == {i \in 1..Len(dir) : dir[i].fingerprint = fingerprint}
    IN IF hits = {} THEN None
       ELSE dir[CHOOSE i \in hits : \A j \in hits : j <= i].id

\* connection_status after the request: resp["status"] is required, the
\* directory is read only when the status is "ok".
ConnectionStatusResult(doc, dir, dirSet) ==
    IF doc.status = None THEN Raise("KeyError", None)
    ELSE IF doc.status # "ok" THEN Return([connected |-> FALSE, profile |-> None])
    ELSE IF ~dirSet THEN Raise("AttributeError", None)
    ELSE Return([connected |-> TRUE, profile |-> UsedProfileId(dir, doc.profile)])

ConnectionStatus(profile_id) ==
    /\ Idle
    /\ \E status \in Statuses : \E body \in BodiesFor(status, TestDocs) :
        LET r == HttpRequest("get", status, body) IN
        /\ call' = Call("connection_status", profile_id, None)
        /\ requests' = 1
        /\ resp' = Response("get", "test", status, body)
        /\ outcome' = IF r.kind = "raise" THEN r
                      ELSE ConnectionStatusResult(r.value, profiles, profilesSet)
        /\ UNCHANGED <<profiles, profilesSet, phase, tasks>>

\* The document a mutation answers with: whether it has a "success" key and
\* whether that is true.  For 204 _http_request makes up {"success": True}.
SuccessTrue == [hasSuccess |-> TRUE, success |-> TRUE]

MutationDocs ==
    {SuccessTrue, [hasSuccess |-> TRUE, success |-> FALSE], [hasSuccess |-> FALSE, success |-> FALSE]}

\* result.get("success", False) is True
Succeeded(doc) == doc.hasSuccess /\ doc.success

\* What a mutation gives its caller once _http_request has answered.
MutationResult(r) == IF r.kind = "raise" THEN r ELSE Return(Succeeded(r.value))

ClearLogs(profile_id) ==
    /\ Idle
    /\ \E status \in Statuses : \E body \in BodiesFor(status, MutationDocs) :
        /\ call' = Call("clear_logs", profile_id, None)
        /\ requests' = 1
        /\ resp' = Response("delete", "logs", status, body)
        /\ outcome' = MutationResult(HttpRequest("delete", status, body))
        /\ UNCHANGED <<profiles, profilesSet, phase, tasks>>

SetWeb3(profile_id, state) ==
    /\ Idle
    /\ \E status \in Statuses : \E body \in BodiesFor(status, MutationDocs) :
        /\ call' = Call("set_web3", profile_id, state)
        /\ requests' = 1
        /\ resp' = Response("patch", "settings", status, body)
        /\ outcome' = MutationResult(HttpRequest("patch", status, body))
        /\ UNCHANGED <<profiles, profilesSet, phase, tasks>>

\* set_setting(profile_id, setting_name, value).  The names the allow-list
\* holds and two it does not.
SupportedSettings == {"block_page", "web3"}

SettingNames == SupportedSettings \cup {"unsupported_setting", "Block_Page"}

\* A variant of SetSetting that sends the request before it validates the name.
SetSettingRequestFirst(profile_id, setting_name, value) ==
    /\ Idle
    /\ call' = Call("set_setting", profile_id, setting_name)
    /\ \E status \in Statuses : \E body \in BodiesFor(status, MutationDocs) :
        /\ requests' = 1
        /\ resp' = Response("patch", "settings", status, body)
        /\ outcome' = IF setting_name \notin SupportedSettings
                      THEN Raise("SettingNotSupportedError", None)
                      ELSE MutationResult(HttpRequest("patch", status, body))
    /\ UNCHANGED <<profiles, profilesSet, phase, tasks>>

SetSetting(profile_id, setting_name, value) ==
    /\ Idle
    /\ call' = Call("set_setting", profile_id, setting_name)
    /\ IF setting_name \notin SupportedSettings
       THEN /\ requests' = 0
            /\ resp' = NoResponse
            /\ outcome' = Raise("SettingNotSupportedError", None)
       ELSE \E status \in Statuses : \E body \in BodiesFor(status, MutationDocs) :
            /\ requests' = 1
            /\ resp' = Response("patch", "settings", status, body)
            /\ outcome' = MutationResult(HttpRequest("patch", status, body))
    /\ UNCHANGED <<profiles, profilesSet, phase, tasks>>

-----------------------------------------------------------------------------
(* The lookups in the profile directory *)

\* The ids and names looked up: those of the directory's entries, the same in
\* another case, and ones no entry has.
LookupIds == ProfileIds \cup {"FAKEPR", "xxyyxx"}

LookupNames == ProfileNames \cup {"fake profile", "Profile Name"}

\* A variant of GetProfileNameResult that falls off the loop without raising.
GetProfileNameNoRaise(dir, dirSet, profile_id) ==
    IF ~dirSet THEN Raise("AttributeError", None)
    ELSE LET hits == {i \in 1..Len(dir) : dir[i].id = profile_id}
         IN IF hits = {} THEN Return(None)
            ELSE Return(dir[CHOOSE i \in hits : \A j \in hits : i <= j].name)

\* for profile in self.profiles: if profile.id == profile_id: return
\* profile.name; then raise ProfileIdNotFoundError.  The first match is
\* returned; self.profiles of a client never initialized is an AttributeError.
GetProfileNameResult(dir, dirSet, profile_id) ==
    IF ~dirSet THEN Raise("AttributeError", None)
    ELSE LET hits == {i \in 1..Len(dir) : dir[i].id = profile_id}
         IN IF hits = {} THEN Raise("ProfileIdNotFoundError", None)
            ELSE Return(dir[CHOOSE i \in hits : \A j \in hits : i <= j].name)

\* get_profile_name(profile_id): no await, no request.
GetProfileName(profile_id) ==
    /\ Idle
    /\ call' = Call("get_profile_name", profile_id, None)
    /\ requests' = 0
    /\ resp' = NoResponse
    /\ outcome' = GetProfileNameResult(profiles, profilesSet, profile_id)
    /\ UNCHANGED <<profiles, profilesSet, phase, tasks>>

\* get_profile_id(profile_name): the scan by name.
GetProfileIdResult(dir, dirSet, profile_name) ==
    IF ~dirSet THEN Raise("AttributeError", None)
    ELSE LET hits == {i \in 1..Len(dir) : dir[i].name = profile_name}
         IN IF hits = {} THEN Raise("ProfileNameNotFoundError", None)
            ELSE Return(dir[CHOOSE i \in hits : \A j \in hits : i <= j].id)

GetProfileId(profile_name) ==
    /\ Idle
    /\ call' = Call("get_profile_id", None, profile_name)
    /\ requests' = 0
    /\ resp' = NoResponse
    /\ outcome' = GetProfileIdResult(profiles, profilesSet, profile_name)
    /\ UNCHANGED <<profiles, profilesSet, phase, tasks>>

\* The profiles property returns self._profiles itself, not a copy: what the
\* caller does to the list it got is done to the directory.  The lists one
\* list operation leaves: pop(), reverse(), append(entry).
ListOperations(list) ==
    (IF Len(list) > 0 THEN {SubSeq(list, 1, Len(list) - 1)} ELSE {})
    \cup {[i \in 1..Len(list) |-> list[Len(list) + 1 - i]]}
    \cup (IF Len(list) < MaxProfiles
          THEN {Append(list, ProfileInfo(e.id, e.fingerprint, e.name)) : e \in ProfileEntries}
          ELSE {})

\* nextdns.profiles.<operation>(...) by the caller, between two calls.
UseProfilesList ==
    /\ Idle
    /\ profilesSet
    /\ \E list \in ListOperations(profiles) :
        /\ list # profiles
        /\ profiles' = list
    /\ UNCHANGED <<profilesSet, call, requests, resp, outcome, phase, tasks>>

-----------------------------------------------------------------------------
(* get_all_analytics: asyncio.gather over the five getters *)

\* The coroutines in the order they are given to gather().
GatherOrder == <<"dnssec", "encryption", "ipVersions", "protocols", "status">>

\* A variant of AllAnalytics whose first two fields are filled in the other order.
AllAnalyticsSwapped(results) ==
    [dnssec |-> results[2], encrypted |-> results[1], ip_versions |-> results[3],
     protocols |-> results[4], status |-> results[5]]

\* AllAnalytics(*resp): the results fill the fields in declaration order.
AllAnalytics(results) ==
    [dnssec |-> results[1], encrypted |-> results[2], ip_versions |-> results[3],
     protocols |-> results[4], status |-> results[5]]

\* The payloads the gathered getters are answered with: an empty list and one
\* entry per raw key, each with the largest count.
GatherPayloads(cls) ==
    {<<>>} \cup {<<[key |-> k, queries |-> MaxCount]>> : k \in DOMAIN MapOf(cls)}

GatherStatuses == {OK, 400, FORBIDDEN}

GatherBodies(cls, status) ==
    IF status = OK
    THEN {Body(TRUE, "absent", TRUE, p, None) : p \in GatherPayloads(cls)}
    ELSE {Body(TRUE, "badRequest", FALSE, None, None)}

Task(st, res) == [st |-> st, res |-> res]

\* The call creates the five coroutines; none has run yet.
StartGather(profile_id) ==
    /\ \A c \in Categories : tasks[c].st \in {"idle", "done", "failed"}
    /\ phase' = "running"
    /\ tasks' = [c \in Categories |-> Task("pending", None)]
    /\ call' = Call("get_all_analytics", profile_id, None)
    /\ requests' = 0
    /\ resp' = NoResponse
    /\ outcome' = NoOutcome
    /\ UNCHANGED <<profiles, profilesSet>>

\* A coroutine runs up to its await of session.request.
IssueSub(cls) ==
    /\ tasks[cls].st = "pending"
    /\ tasks' = [tasks EXCEPT ![cls] = Task("waiting", None)]
    /\ requests' = requests + 1
    /\ UNCHANGED <<profiles, profilesSet, call, resp, outcome, phase>>

\* What gather() gives the awaiting call once the tasks stand as ts: the
\* first exception raised stays; the results are returned when all are in.
GatherOutcome(ts, cls, r, old, ph) ==
    IF ph # "running" THEN old
    ELSE IF r.kind = "raise" THEN r
    ELSE IF \A c \in Categories : ts[c].st = "done"
         THEN Return(AllAnalytics([i \in 1..Len(GatherOrder) |-> ts[GatherOrder[i]].res.value]))
    ELSE old

\* A response arrives and its coroutine runs to its end.  Coroutines of a
\* gather that has already failed keep running; their results are dropped.
RespondSub(cls) ==
    \E status \in GatherStatuses : \E body \in GatherBodies(cls, status) :
        LET r == AnalyticsResult(cls, status, body)
            ts == [tasks EXCEPT ![cls] =
                      Task(IF r.kind = "raise" THEN "failed" ELSE "done", r)]
            o == GatherOutcome(ts, cls, r, outcome, phase)
        IN /\ tasks[cls].st = "waiting"
           /\ tasks' = ts
           /\ outcome' = o
           /\ phase' = IF phase # "running" THEN phase
                       ELSE IF o.kind = "raise" THEN "failed"
                       ELSE IF o.kind = "return" THEN "returned"
                       ELSE phase
           /\ UNCHANGED <<profiles, profilesSet, call, requests, resp>>

-----------------------------------------------------------------------------
(* The aggregates in the caller's hands *)

\* The keyword arguments a caller may construct a dataclass with: any of its
\* fields, the derived ones included.
KeywordArgs(cls) ==
    UNION {[S -> 0..MaxCount] : S \in SUBSET Fields(cls)}

HoldsAggregate ==
    /\ outcome.kind = "return"
    /\ call.op \in {"get_analytics", "construct", "assign"}

\* AnalyticsStatus(...), AnalyticsDnssec(...), ... called directly.
Construct(cls) ==
    /\ Idle
    /\ \E kw \in KeywordArgs(cls) :
        /\ call' = Call("construct", None, cls)
        /\ requests' = 0
        /\ resp' = NoResponse
        /\ outcome' = NewAggregate(cls, kw)
        /\ UNCHANGED <<profiles, profilesSet, phase, tasks>>

\* aggregate.<field> = value: the dataclasses are not frozen, and an
\* assignment runs no __post_init__.
SetField(aggregate, name, value) ==
    [aggregate EXCEPT !.f = [aggregate.f EXCEPT ![name] = value]]

AssignField ==
    /\ HoldsAggregate
    /\ \E name \in Fields(outcome.value.cls) : \E value \in 0..MaxCount :
        /\ call' = Call("assign", None, outcome.value.cls)
        /\ outcome' = Return(SetField(outcome.value, name, value))
    /\ requests' = 0
    /\ resp' = NoResponse
    /\ UNCHANGED <<profiles, profilesSet, phase, tasks>>

-----------------------------------------------------------------------------
(* The specifications *)

Init ==
    /\ profiles = <<>>
    /\ profilesSet = FALSE
    /\ call = Call("none", None, None)
    /\ requests = 0
    /\ resp = NoResponse
    /\ outcome = NoOutcome
    /\ phase = "idle"
    /\ tasks = [c \in Categories |-> Task("idle", None)]

\* The facade, called sequentially.
Next ==
    \/ Initialize
    \/ \E id \in ProfileIds : GetProfile(id)
    \/ \E id \in ProfileIds : \E cls \in Categories : GetAnalytics(cls, id, GatherPayloads(cls))
    \/ \E id \in ProfileIds : ConnectionStatus(id)
    \/ \E id \in ProfileIds : ClearLogs(id)
    \/ \E id \in ProfileIds : \E state \in BOOLEAN : SetWeb3(id, state)
    \/ \E id \in ProfileIds : \E name \in SettingNames : \E value \in BOOLEAN :
          SetSetting(id, name, value)
    \/ \E id \in LookupIds : GetProfileName(id)
    \/ \E name \in LookupNames : GetProfileId(name)
    \/ UseProfilesList
    \/ Resume

Spec == Init /\ [][Next]_vars

\* get_all_analytics and the interleavings of its sub-requests.
GatherNext ==
    \/ \E id \in ProfileIds : StartGather(id)
    \/ \E cls \in Categories : IssueSub(cls)
    \/ \E cls \in Categories : RespondSub(cls)

GatherSpec == Init /\ [][GatherNext]_vars

\* The analytics getters over every response within the bounds, and the
\* aggregates constructed and assigned to by the caller.
AggregateNext ==
    \/ \E cls \in Categories : GetAnalytics(cls, "fakepr", SeqsUpTo(Items(cls), MaxItems))
    \/ \E cls \in Categories : Construct(cls)
    \/ AssignField
    \/ Resume

AggregateSpec == Init /\ [][AggregateNext]_vars

-----------------------------------------------------------------------------
(* Properties *)

\* The last call put a request on the transport and was answered.
Answered == requests = 1 /\ resp.status # 0

\* The document of the last response, as _http_request hands it on.
Doc == Unwrap(resp.body)

\* C1: a response whose status is not 403, not 200, not 204 to a delete or
\* patch, and not 2xx, with a body carrying errors[0].code, makes the call
\* raise ApiError with the message "<status>, <code>" and return no value.
C1_ApiErrorMessage ==
    (/\ Answered
     /\ resp.status \notin {FORBIDDEN, OK}
     /\ ~(resp.status = NO_CONTENT /\ resp.method \in {"delete", "patch"})
     /\ (resp.status < 200 \/ resp.status >= 300)
     /\ resp.body.json
     /\ resp.body.errors \in ErrorCodes)
    => /\ outcome.kind = "raise"
       /\ outcome.exc = "ApiError"
       /\ outcome.msg = ToString(resp.status) \o ", " \o resp.body.errors
       /\ (resp.status = 400 /\ resp.body.errors = "badRequest"
              => outcome.msg = "400, badRequest")
       /\ outcome.value = None

C1_Witness ==
    /\ call.op = "clear_logs"
    /\ resp.method = "delete"
    /\ resp.status = 400
    /\ outcome.exc = "ApiError"
    /\ outcome.msg = "400, badRequest"

\* C2: a 403 answer to any request of any method raises InvalidApiKeyError
\* whatever the body is, also a body that cannot be read and also for delete
\* and patch: no other rule gets to classify it.
C2_ForbiddenFirst ==
    (Answered /\ resp.status = FORBIDDEN)
    => outcome = Raise("InvalidApiKeyError", None)

C2_Witness ==
    /\ call.op = "set_web3"
    /\ resp.method = "patch"
    /\ resp.status = FORBIDDEN
    /\ resp.body.json
    /\ resp.body.errors = "badRequest"
    /\ outcome.exc = "InvalidApiKeyError"

\* C8: set_setting with a name outside the allow-list raises
\* SettingNotSupportedError and puts no request on the transport.
C8_UnsupportedSettingNoRequest ==
    (call.op = "set_setting" /\ call.arg \notin {"block_page", "web3"})
    => /\ outcome = Raise("SettingNotSupportedError", None)
       /\ requests = 0
       /\ resp = NoResponse

C8_Witness ==
    /\ call.op = "set_setting"
    /\ call.arg = "unsupported_setting"
    /\ outcome.exc = "SettingNotSupportedError"
    /\ requests = 0

AllFiveInFlight ==
    /\ phase = "running"
    /\ \A c \in Categories : tasks[c].st = "waiting"

\* Once a gather has failed, what later getters give does not change the
\* exception the caller got.
C7_FirstFailureStays ==
    [][(phase = "failed" /\ phase' = "failed") => outcome' = outcome]_vars

\* C3: every aggregate in the caller's hands has derived fields equal to the
\* values computed anew from its counters.
C3_DerivedFieldsCurrent ==
    HoldsAggregate
    => outcome.value.f = PostInit(outcome.value.cls, outcome.value.f)

\* The entries of the last analytics response, when it is a 200 response
\* whose entries all carry raw keys of the category's table.
Recognised ==
    /\ call.op = "get_analytics"
    /\ Answered
    /\ resp.status = OK
    /\ resp.body.json
    /\ \A i \in 1..Len(Doc) : Doc[i].key \in DOMAIN MapOf(call.arg)

\* The count the response gives for a raw key: that of its last entry with
\* the key, 0 when there is none.
CountOf(items, key) ==
    LET hits == {i \in 1..Len(items) : items[i].key = key}
    IN IF hits = {} THEN 0
       ELSE items[CHOOSE i \in hits : \A j \in hits : j <= i].queries

RECURSIVE TotalOf(_, _)
TotalOf(items, keys) ==
    IF keys = {} THEN 0
    ELSE LET k == CHOOSE x \in keys : TRUE
         IN CountOf(items, k) + TotalOf(items, keys \ {k})

\* C4: an AnalyticsStatus decoded from a status response has all_queries =
\* allowed + blocked + default + relayed.
C4_StatusAllQueriesIsSum ==
    (Recognised /\ call.arg = "status")
    => /\ outcome.kind = "return"
       /\ outcome.value.f["all_queries"] =
             CountOf(Doc, "allowed") + CountOf(Doc, "blocked")
                + CountOf(Doc, "default") + CountOf(Doc, "relayed")

\* C5: an AnalyticsProtocols decoded from a protocols response has, for each
\* of its four counters, a ratio field equal to 0 when the total is 0 and to
\* counter / total * 100 rounded to one decimal otherwise.
C5_EveryCounterHasItsRatio ==
    (Recognised /\ call.arg = "protocols")
    => /\ outcome.kind = "return"
       /\ \A k \in DOMAIN MAP_PROTOCOLS :
             LET name == CASE k = "DNS-over-HTTPS" -> "doh_queries_ratio"
                           [] k = "DNS-over-QUIC" -> "doq_queries_ratio"
                           [] k = "DNS-over-TLS" -> "dot_queries_ratio"
                           [] k = "UDP" -> "udp_queries_ratio"
                 total == TotalOf(Doc, DOMAIN MAP_PROTOCOLS)
             IN /\ name \in DOMAIN outcome.value.f
                /\ outcome.value.f[name] =
                      (IF total = 0 THEN 0 ELSE RoundedRatio(CountOf(Doc, k), total))

\* C6: decoding succeeds for every response whose raw keys the category's
\* table recognises, and the counter the table names for an entry holds that
\* entry's count.
C6_DecodingSucceeds ==
    Recognised
    => /\ outcome.kind = "return"
       /\ \A k \in DOMAIN MapOf(call.arg) :
             (\E i \in 1..Len(Doc) : Doc[i].key = k)
                => outcome.value.f[MapOf(call.arg)[k]] = CountOf(Doc, k)

\* C11: on an initialized client get_profile_name(id) returns the name of a
\* directory entry whose id is exactly the argument and raises
\* ProfileIdNotFoundError when there is none; get_profile_id(name) returns the
\* id of an entry whose name is exactly the argument and raises
\* ProfileNameNotFoundError when there is none; neither makes a request.
C11_Lookups ==
    /\ (call.op = "get_profile_name" /\ profilesSet)
          => LET hits == {i \in 1..Len(profiles) : profiles[i].id = call.profile_id}
             IN /\ requests = 0
                /\ resp = NoResponse
                /\ IF hits = {}
                   THEN outcome = Raise("ProfileIdNotFoundError", None)
                   ELSE /\ outcome.kind = "return"
                        /\ \E i \in hits : outcome.value = profiles[i].name
    /\ (call.op = "get_profile_id" /\ profilesSet)
          => LET hits == {i \in 1..Len(profiles) : profiles[i].name = call.arg}
             IN /\ requests = 0
                /\ resp = NoResponse
                /\ IF hits = {}
                   THEN outcome = Raise("ProfileNameNotFoundError", None)
                   ELSE /\ outcome.kind = "return"
                        /\ \E i \in hits : outcome.value = profiles[i].id

\* The id of an entry looked up in upper case is not found.
C11_Witness ==
    /\ call.op = "get_profile_name"
    /\ call.profile_id = "FAKEPR"
    /\ profilesSet
    /\ \E i \in 1..Len(profiles) : profiles[i].id = "fakepr"
    /\ outcome.exc = "ProfileIdNotFoundError"
    /\ requests = 0

\* A name is found and its id returned.
C11_NameFound ==
    /\ call.op = "get_profile_id"
    /\ call.arg = "Fake Profile"
    /\ outcome.kind = "return"
    /\ outcome.value = "fakepr"

\* C12: once the directory has been written by the first initialization, no
\* step of the client or of its caller changes its entries or their order.
C12_DirectoryWrittenOnce ==
    [][profilesSet => (profilesSet' /\ profiles' = profiles)]_vars

\* What does hold: the directory changes only in a successful initialize()
\* and through the list the profiles property hands out.
DirectoryChangesOnlyThere ==
    [][(profiles' # profiles \/ profilesSet' # profilesSet)
          => \/ (call'.op = "initialize" /\ outcome'.kind = "return" /\ profiles' = Doc')
             \/ (profilesSet /\ call'.op = "none" /\ call.op = "none")]_vars

====
